---- MODULE Spec2Model ----
(***************************************************************************)
(* kqfm: a kqueue file monitor.  It reads newline delimited paths from     *)
(* stdin, registers an EVFILT_VNODE watch for each, and prints one line    *)
(* per change event on stdout.  SIGUSR1 dumps the watched paths on stderr. *)
(*                                                                         *)
(* The model follows src/kqfm.c statement by statement where a signal can  *)
(* interleave.  Bytes are one-character strings, a C string is a sequence  *)
(* of bytes, a pointer to a path_entry is an index into heap (NULL is 0).  *)
(***************************************************************************)
EXTENDS Integers, Sequences, FiniteSets, TLC

(* ------------------------------ bounds -------------------------------- *)
\* Total number of bytes the writer puts on the control stream.
MaxBytes == 3
\* Number of SIGUSR1 deliveries.
MaxSignals == 1
\* Number of file changes the environment makes.
MaxChanges == 1

(* --------------------------- program constants ------------------------- *)
NULL == 0
in_fno == 0
NL == "\n"
\* <sys/event.h> note bits, in the order flag_descs lists them
NOTE_DELETE == 1
NOTE_WRITE == 2
NOTE_EXTEND == 4
NOTE_ATTRIB == 8
NOTE_LINK == 16
NOTE_RENAME == 32
NOTE_REVOKE == 64
\* <errno.h>
ENOENT == 2
EINTR == 4
EBADF == 9
EACCES == 13

\* The bytes the writer can send, and the files that exist and can be opened.
Alphabet == {"a", "b", NL}
Openable == {<<"a">>, <<"b">>}
\* The change kinds the environment produces in the watcher specification.
ChangeKinds == {NOTE_DELETE, NOTE_WRITE}
\* errno values a failing open() / kevent() wait can leave.
OpenErrnos == {ENOENT, EACCES}
WaitErrnos == {EBADF}

(* ------------------------------ C strings ------------------------------ *)
RECURSIVE Str(_)
\* The text of a byte sequence, as printf("%s") prints it.
Str(s) == IF s = <<>> THEN "" ELSE Head(s) \o Str(Tail(s))

\* flag & bit, for a single-bit flag
BitAnd(flags, bit) == IF (flags \div bit) % 2 = 1 THEN bit ELSE 0
\* flags | bit, for a single-bit flag
BitOr(flags, bit) == IF BitAnd(flags, bit) # 0 THEN flags ELSE flags + bit

(* ---------------------------- flag_descs ------------------------------- *)
flag_descs ==
    << [flag |-> NOTE_DELETE, name |-> "DELETE"],
       [flag |-> NOTE_WRITE,  name |-> "WRITE"],
       [flag |-> NOTE_EXTEND, name |-> "EXTEND"],
       [flag |-> NOTE_ATTRIB, name |-> "ATTRIB"],
       [flag |-> NOTE_LINK,   name |-> "LINK"],
       [flag |-> NOTE_RENAME, name |-> "RENAME"],
       [flag |-> NOTE_REVOKE, name |-> "REVOKE"],
       [flag |-> 0,           name |-> ""] >>

(* ------------------------ change_flags_to_msg -------------------------- *)
\* Mutant: the separator is written after the name instead of before it.
FlagAppendTrailing(buf, flagged, name) == buf \o name \o ","

\* Lines 157-162: the buffer after one matching table entry is appended.
FlagAppend(buf, flagged, name) ==
    (IF flagged = 1 THEN buf \o "," ELSE buf) \o name

RECURSIVE FlagLoop(_, _, _, _)
\* Lines 155-165: the for loop from entry i, with the buffer and flagged so far.
FlagLoop(flags, buf, flagged, i) ==
    IF flag_descs[i].flag = 0 THEN buf
    ELSE IF BitAnd(flags, flag_descs[i].flag) # 0
         THEN FlagLoop(flags, FlagAppend(buf, flagged, flag_descs[i].name), 1, i + 1)
         ELSE FlagLoop(flags, buf, flagged, i + 1)

\* Lines 151-166: the contents of *buf on return.
change_flags_to_msg(flags, buf) == FlagLoop(flags, buf, 0, 1)

\* Lines 168-178: the line handle_event prints for an event.
HandleEventLine(udataText, fflags) ==
    udataText \o "\t" \o change_flags_to_msg(fflags, "") \o NL

(* ------------------------------- state --------------------------------- *)
VARIABLES
    \* the control stream: a pipe on descriptor in_fno, read through stdio
    written,          \* every byte the writer has sent so far (history)
    pipe,             \* bytes in the kernel, not yet read by stdio
    closed,           \* the writer has closed its end
    inReady,          \* the EV_CLEAR read filter on in_fno has been activated
    inbuf,            \* bytes stdio has read from the descriptor and not handed out
    eofFlag,          \* feof(in)
    \* the kqueue
    watches,          \* the EVFILT_VNODE registrations, in the order they were added
    eventSince,       \* since of the vnode event the wait has just returned (history)
    nchanges,         \* file changes made so far
    nsignals,         \* SIGUSR1 deliveries so far
    nstops,           \* waits a stop and continue of the process has interrupted
    \* the program
    pc,               \* the statement the main flow is at
    signal_caught,    \* line 23
    k_event,          \* watcher_loop's k_event
    kret,             \* what the last kevent() wait returned
    kerrno,           \* errno after that wait
    heap,             \* the path_entry objects malloc has returned
    paths_tail,       \* line 38
    paths_head,       \* line 107 (static)
    bytes_available,  \* register_paths' parameters and locals
    eof_signaled,
    bytes_read,
    line,
    new_path,
    status,           \* the exit status, once pc = "exited"
    out,              \* the lines written to stdout
    errout,           \* the lines dump_paths has written to stderr
    \* the renderer on its own
    rflags,
    rbuf,
    rdone,
    rhist             \* <<fflags, text>> of each handle_event rendering so far

envVars == <<written, pipe, closed, inReady, inbuf, eofFlag, watches,
             eventSince, nchanges, nsignals, nstops>>
progVars == <<pc, signal_caught, k_event, kret, kerrno, heap, paths_tail,
              paths_head, bytes_available, eof_signaled, bytes_read, line,
              new_path, status, out, errout>>
renderVars == <<rflags, rbuf, rdone, rhist>>
vars == <<envVars, progVars, renderVars>>

\* EV_EOF of <sys/event.h>
EV_EOF == 32768
\* descriptor kqueue() returns when 0, 1 and 2 are open
kq == 3
\* what an uninitialised int or pointer is shown as; the model never reads one
Garbage == -1

\* what an unset char pointer is shown as
GarbagePath == <<"?">>

UninitEvent ==
    [ident |-> Garbage, filter |-> "uninit", flags |-> Garbage,
     fflags |-> Garbage, data |-> Garbage, udata |-> Garbage]

(* ------------------------------ the lists ------------------------------ *)
\* insque(3) with the arguments swapped: the element is linked before pred.
InsqueBefore(h, elem, pred) ==
    IF pred = NULL
    THEN [h EXCEPT ![elem].next = NULL, ![elem].prev = NULL]
    ELSE LET p == h[pred].prev
             h1 == IF p # NULL THEN [h EXCEPT ![p].next = elem] ELSE h
         IN [h1 EXCEPT ![pred].prev = elem, ![elem].next = pred, ![elem].prev = p]

\* insque(3) as line 138 calls it: link elem right after pred; with a NULL
\* pred the element becomes a list of its own, both links NULL.
insque(h, elem, pred) ==
    IF pred = NULL
    THEN [h EXCEPT ![elem].next = NULL, ![elem].prev = NULL]
    ELSE LET n == h[pred].next
             h1 == IF n # NULL THEN [h EXCEPT ![n].prev = elem] ELSE h
         IN [h1 EXCEPT ![pred].next = elem, ![elem].prev = pred, ![elem].next = n]

RECURSIVE DumpFrom(_, _, _)
\* Lines 222-225: the do-while of dump_paths from entry p; fuel cuts a walk
\* that would not end.
DumpFrom(h, p, fuel) ==
    IF fuel = 0 THEN <<>>
    ELSE <<Str(h[p].path) \o NL>> \o
         (IF h[p].next = NULL THEN <<>> ELSE DumpFrom(h, h[p].next, fuel - 1))

\* Lines 217-225: what dump_paths prints.
DumpLines(h, tail) == IF tail = NULL THEN <<>> ELSE DumpFrom(h, tail, Len(h) + 1)

(* ------------------------------ the stream ----------------------------- *)
HasNL(s) == \E i \in 1..Len(s) : s[i] = NL
FirstNL(s) == CHOOSE i \in 1..Len(s) : s[i] = NL /\ \A j \in 1..(i - 1) : s[j] # NL

\* Mutant: the terminator is counted out of the line whatever the last byte is.
PathLenAlwaysStrip(ln) == Len(ln) - 1

\* Line 130: pathlen.
PathLen(ln) == Len(ln) + (IF ln[Len(ln)] = NL THEN -1 ELSE 0)

\* Mutant: the entry is linked with its path not yet copied.
PathNotCopied(ln) == GarbagePath

\* Lines 135-136: the path copied out of the line.
CopyPath(ln) == SubSeq(ln, 1, PathLen(ln))

(* ------------------------------ the kqueue ----------------------------- *)
InputReady == inReady /\ (Len(pipe) > 0 \/ closed)
VnodeReady(i) == watches[i].fflags # 0
AnyReady == InputReady \/ \E i \in 1..Len(watches) : VnodeReady(i)

InputEvent ==
    [ident |-> in_fno, filter |-> "EVFILT_READ",
     flags |-> IF closed THEN EV_EOF ELSE 0,
     fflags |-> 0, data |-> Len(pipe), udata |-> NULL]

VnodeEvent(i) ==
    [ident |-> watches[i].fd, filter |-> "EVFILT_VNODE", flags |-> 0,
     fflags |-> watches[i].fflags, data |-> 0, udata |-> watches[i].udata]

(* ------------------------------- Init ---------------------------------- *)
ProgInit ==
    /\ pc = "top"
    /\ signal_caught = 0
    /\ k_event = UninitEvent
    /\ kret = 0
    /\ kerrno = 0
    /\ heap = <<>>
    /\ paths_tail = NULL
    /\ paths_head = NULL
    /\ bytes_available = 0
    /\ eof_signaled = 0
    /\ bytes_read = 0
    /\ line = <<>>
    /\ new_path = NULL
    /\ status = 0
    /\ out = <<>>
    /\ errout = <<>>

EnvInit ==
    /\ written = <<>>
    /\ pipe = <<>>
    /\ closed = FALSE
    /\ inReady = FALSE
    /\ inbuf = <<>>
    /\ eofFlag = FALSE
    /\ watches = <<>>
    /\ eventSince = 0
    /\ nchanges = 0
    /\ nsignals = 0
    /\ nstops = 0

Init ==
    /\ EnvInit
    /\ ProgInit
    /\ rflags = 0
    /\ rbuf = ""
    /\ rdone = FALSE
    /\ rhist = <<>>

(* --------------------------- the environment --------------------------- *)
Running == pc # "exited"

\* The writer sends one byte; the read filter on in_fno is activated.
Write(b) ==
    /\ Running
    /\ ~closed
    /\ Len(written) < MaxBytes
    /\ written' = Append(written, b)
    /\ pipe' = Append(pipe, b)
    /\ inReady' = TRUE
    /\ UNCHANGED <<closed, inbuf, eofFlag, watches, eventSince, nchanges, nsignals, nstops>>
    /\ UNCHANGED <<progVars, renderVars>>

\* The writer closes its end; the read filter is activated with EV_EOF.
Close ==
    /\ Running
    /\ ~closed
    /\ closed' = TRUE
    /\ inReady' = TRUE
    /\ UNCHANGED <<written, pipe, inbuf, eofFlag, watches, eventSince, nchanges, nsignals, nstops>>
    /\ UNCHANGED <<progVars, renderVars>>

\* A change of kind k to file f: every registration of f (lines 90-92, ALL_FLAGS
\* with EV_CLEAR) accumulates the note until the wait returns it.  since is
\* history: how many signals had been delivered when the oldest pending note
\* of the registration was made.
FileChange(f, k) ==
    /\ Running
    /\ nchanges < MaxChanges
    /\ \E i \in 1..Len(watches) : heap[watches[i].udata].path = f
    /\ watches' = [i \in 1..Len(watches) |->
                     IF heap[watches[i].udata].path = f
                     THEN [watches[i] EXCEPT
                             !.fflags = BitOr(@, k),
                             !.since = IF watches[i].fflags = 0 THEN nsignals ELSE @]
                     ELSE watches[i]]
    /\ nchanges' = nchanges + 1
    /\ UNCHANGED <<written, pipe, closed, inReady, inbuf, eofFlag, eventSince, nsignals, nstops>>
    /\ UNCHANGED <<progVars, renderVars>>

(* ----------------------------- dump_paths ------------------------------ *)
\* Mutant: a wait failure is fatal whatever errno says.
WaitFatalAlways(ret, errno) == ret = -1

\* Lines 197-198: the wait failed and the failure is fatal.
WaitFatal(ret, errno) == ret = -1 /\ errno # EINTR

\* Mutant: the walk advances paths_tail itself, which is NULL when it ends.
AnchorWalked(tail) == NULL

\* Lines 217 and 224: the walk moves the local p_entry; paths_tail is only read.
AnchorAfterDump(tail) == tail

\* Lines 215-226, run as the SIGUSR1 handler at any point of the main flow.  A
\* wait that is blocked in the kernel returns -1 with EINTR (line 197); any
\* other statement, a blocked read of stdin included, resumes where it was.
dump_paths ==
    /\ Running
    /\ nsignals < MaxSignals
    /\ nsignals' = nsignals + 1
    /\ signal_caught' = 1
    /\ errout' = errout \o DumpLines(heap, paths_tail)
    /\ IF pc = "sleep"
       THEN /\ kret' = -1
            /\ kerrno' = EINTR
            /\ IF WaitFatal(-1, EINTR)
               THEN pc' = "exited" /\ status' = 1
               ELSE pc' = "check" /\ status' = status
       ELSE UNCHANGED <<pc, kret, kerrno, status>>
    /\ paths_tail' = AnchorAfterDump(paths_tail)
    /\ UNCHANGED <<k_event, heap, paths_head, bytes_available,
                   eof_signaled, bytes_read, line, new_path, out>>
    /\ UNCHANGED <<written, pipe, closed, inReady, inbuf, eofFlag, watches,
                   eventSince, nchanges, nstops>>
    /\ UNCHANGED renderVars

(* ----------------------------- watcher_loop ---------------------------- *)
\* Line 196.
LoopTop ==
    /\ pc = "top"
    /\ signal_caught' = 0
    /\ pc' = "kevent_call"
    /\ UNCHANGED <<k_event, kret, kerrno, heap, paths_tail, paths_head,
                   bytes_available, eof_signaled, bytes_read, line, new_path,
                   status, out, errout>>
    /\ UNCHANGED <<envVars, renderVars>>

\* Line 197: nothing is ready when the wait is entered, so it blocks.
KeventBlock ==
    /\ pc = "kevent_call"
    /\ ~AnyReady
    /\ pc' = "sleep"
    /\ UNCHANGED <<signal_caught, k_event, kret, kerrno, heap, paths_tail,
                   paths_head, bytes_available, eof_signaled, bytes_read, line,
                   new_path, status, out, errout>>
    /\ UNCHANGED <<envVars, renderVars>>

\* Line 197: the wait returns the read event of in_fno; EV_CLEAR resets it.
KeventInput ==
    /\ pc \in {"kevent_call", "sleep"}
    /\ InputReady
    /\ k_event' = InputEvent
    /\ kret' = 1
    /\ kerrno' = kerrno
    /\ inReady' = FALSE
    /\ pc' = "check"
    /\ UNCHANGED <<signal_caught, heap, paths_tail, paths_head, bytes_available,
                   eof_signaled, bytes_read, line, new_path, status, out, errout>>
    /\ UNCHANGED <<written, pipe, closed, inbuf, eofFlag, watches, eventSince,
                   nchanges, nsignals, nstops>>
    /\ UNCHANGED renderVars

\* Line 197: the wait returns the vnode event of registration i; EV_CLEAR
\* resets its notes.
KeventVnode(i) ==
    /\ pc \in {"kevent_call", "sleep"}
    /\ VnodeReady(i)
    /\ k_event' = VnodeEvent(i)
    /\ kret' = 1
    /\ kerrno' = kerrno
    /\ watches' = [watches EXCEPT ![i].fflags = 0, ![i].since = 0]
    /\ eventSince' = watches[i].since
    /\ pc' = "check"
    /\ UNCHANGED <<signal_caught, heap, paths_tail, paths_head, bytes_available,
                   eof_signaled, bytes_read, line, new_path, status, out, errout>>
    /\ UNCHANGED <<written, pipe, closed, inReady, inbuf, eofFlag, nchanges, nsignals, nstops>>
    /\ UNCHANGED renderVars

\* Lines 197-198: the wait fails for a reason other than a signal.
KeventFail(e) ==
    /\ pc \in {"kevent_call", "sleep"}
    /\ kret' = -1
    /\ kerrno' = e
    /\ IF WaitFatal(-1, e)
       THEN pc' = "exited" /\ status' = 1
       ELSE pc' = "check" /\ status' = status
    /\ UNCHANGED <<signal_caught, k_event, heap, paths_tail, paths_head,
                   bytes_available, eof_signaled, bytes_read, line, new_path,
                   out, errout>>
    /\ UNCHANGED <<envVars, renderVars>>

\* Line 201.
SkipIteration(caught) == caught # 0

\* Line 201.
CheckSignal ==
    /\ pc = "check"
    /\ pc' = IF SkipIteration(signal_caught) THEN "top" ELSE "dispatch"
    /\ eventSince' = 0
    /\ UNCHANGED <<signal_caught, k_event, kret, kerrno, heap, paths_tail,
                   paths_head, bytes_available, eof_signaled, bytes_read, line,
                   new_path, status, out, errout>>
    /\ UNCHANGED <<written, pipe, closed, inReady, inbuf, eofFlag, watches,
                   nchanges, nsignals, nstops>>
    /\ UNCHANGED renderVars

\* Line 203.
IsInputEvent(ev) == ev.ident = in_fno /\ ev.filter = "EVFILT_READ"

\* Lines 203-204: the call of register_paths.
DispatchInput ==
    /\ pc = "dispatch"
    /\ IsInputEvent(k_event)
    /\ bytes_available' = k_event.data
    /\ eof_signaled' = BitAnd(k_event.flags, EV_EOF)
    /\ bytes_read' = 0
    /\ pc' = "rp_test"
    /\ UNCHANGED <<signal_caught, k_event, kret, kerrno, heap, paths_tail,
                   paths_head, line, new_path, status, out, errout>>
    /\ UNCHANGED <<envVars, renderVars>>

\* Lines 175-176: the line for event ev; udata points at the entry's path.
ReportLine(ev) == HandleEventLine(Str(heap[ev.udata].path), ev.fflags)

\* Lines 205-206: handle_event.
DispatchChange ==
    /\ pc = "dispatch"
    /\ k_event # UninitEvent
    /\ ~IsInputEvent(k_event)
    /\ out' = Append(out, ReportLine(k_event))
    /\ pc' = "top"
    /\ UNCHANGED <<signal_caught, k_event, kret, kerrno, heap, paths_tail,
                   paths_head, bytes_available, eof_signaled, bytes_read, line,
                   new_path, status, errout>>
    /\ UNCHANGED <<envVars, renderVars>>

(* ---------------------------- register_paths --------------------------- *)
\* Mutant: the loop goes on only while neither the byte count has been
\* reached nor a signalled end-of-file has been met.
LoopCondEither(nread, navail, eofsig, atEof) ==
    (nread < navail) /\ ~(eofsig # 0 /\ atEof)

\* Line 115: the loop condition.
LoopCond(nread, navail, eofsig, atEof) ==
    (nread < navail) \/ (eofsig # 0 /\ ~atEof)

\* Line 145: register_paths returns and its parameters and locals are gone.
ReturnLocals ==
    /\ bytes_available' = 0
    /\ eof_signaled' = 0
    /\ bytes_read' = 0
    /\ line' = <<>>
    /\ new_path' = NULL

\* Line 115.
RpTest ==
    /\ pc = "rp_test"
    /\ IF LoopCond(bytes_read, bytes_available, eof_signaled, eofFlag)
       THEN /\ pc' = "rp_fgetln"
            /\ UNCHANGED <<bytes_available, eof_signaled, bytes_read, line, new_path>>
       ELSE /\ pc' = "top"
            /\ ReturnLocals
    /\ UNCHANGED <<signal_caught, k_event, kret, kerrno, heap, paths_tail,
                   paths_head, status, out, errout>>
    /\ UNCHANGED <<envVars, renderVars>>

\* What stdio holds once fgetln has refilled its buffer: a refill is done only
\* when the buffer has no complete line, and takes all the pipe holds.
Refilled == IF HasNL(inbuf) \/ eofFlag THEN inbuf ELSE inbuf \o pipe

\* Lines 116-124: fgetln returns a line that ends with a newline.
FgetlnLine ==
    /\ pc = "rp_fgetln"
    /\ HasNL(Refilled)
    /\ LET buf == Refilled
           n == FirstNL(buf)
       IN /\ line' = SubSeq(buf, 1, n)
          /\ inbuf' = SubSeq(buf, n + 1, Len(buf))
          /\ bytes_read' = bytes_read + n
    /\ pipe' = IF HasNL(inbuf) \/ eofFlag THEN pipe ELSE <<>>
    /\ pc' = "rp_malloc"
    /\ UNCHANGED <<signal_caught, k_event, kret, kerrno, heap, paths_tail,
                   paths_head, bytes_available, eof_signaled, new_path, status,
                   out, errout>>
    /\ UNCHANGED <<written, closed, inReady, eofFlag, watches,
                   eventSince, nchanges, nsignals, nstops>>
    /\ UNCHANGED renderVars

\* Lines 116-124: the stream ends before a newline; fgetln returns the bytes
\* left, if any, and the stream is at end-of-file.
FgetlnPartial ==
    /\ pc = "rp_fgetln"
    /\ ~HasNL(Refilled)
    /\ closed \/ eofFlag
    /\ Refilled # <<>>
    /\ line' = Refilled
    /\ bytes_read' = bytes_read + Len(Refilled)
    /\ inbuf' = <<>>
    /\ pipe' = IF eofFlag THEN pipe ELSE <<>>
    /\ eofFlag' = TRUE
    /\ pc' = "rp_malloc"
    /\ UNCHANGED <<signal_caught, k_event, kret, kerrno, heap, paths_tail,
                   paths_head, bytes_available, eof_signaled, new_path, status,
                   out, errout>>
    /\ UNCHANGED <<written, closed, inReady, watches,
                   eventSince, nchanges, nsignals, nstops>>
    /\ UNCHANGED renderVars

\* Lines 116-118: fgetln returns NULL at end-of-file and the loop is left.
FgetlnEof ==
    /\ pc = "rp_fgetln"
    /\ closed \/ eofFlag
    /\ Refilled = <<>>
    /\ eofFlag' = TRUE
    /\ pc' = "top"
    /\ ReturnLocals
    /\ UNCHANGED <<signal_caught, k_event, kret, kerrno, heap, paths_tail,
                   paths_head, status, out, errout>>
    /\ UNCHANGED <<written, pipe, closed, inReady, inbuf, watches,
                   eventSince, nchanges, nsignals, nstops>>
    /\ UNCHANGED renderVars

\* Lines 116-120: fgetln returns NULL for a read error.
FgetlnError ==
    /\ pc = "rp_fgetln"
    /\ ~eofFlag
    /\ pc' = "exited"
    /\ status' = 1
    /\ UNCHANGED <<signal_caught, k_event, kret, kerrno, heap, paths_tail,
                   paths_head, bytes_available, eof_signaled, bytes_read, line,
                   new_path, out, errout>>
    /\ UNCHANGED <<envVars, renderVars>>

\* Line 126: the new entry, its fields not yet set.
RpMalloc ==
    /\ pc = "rp_malloc"
    /\ heap' = Append(heap, [next |-> Garbage, prev |-> Garbage, path |-> GarbagePath])
    /\ new_path' = Len(heap) + 1
    /\ pc' = "rp_copy"
    /\ UNCHANGED <<signal_caught, k_event, kret, kerrno, paths_tail, paths_head,
                   bytes_available, eof_signaled, bytes_read, line, status, out,
                   errout>>
    /\ UNCHANGED <<envVars, renderVars>>

\* Lines 130-136.
RpCopy ==
    /\ pc = "rp_copy"
    /\ heap' = [heap EXCEPT ![new_path].path = CopyPath(line)]
    /\ pc' = "rp_insque"
    /\ UNCHANGED <<signal_caught, k_event, kret, kerrno, paths_tail, paths_head,
                   bytes_available, eof_signaled, bytes_read, line, new_path,
                   status, out, errout>>
    /\ UNCHANGED <<envVars, renderVars>>

\* Line 138.
RpInsque ==
    /\ pc = "rp_insque"
    /\ heap' = insque(heap, new_path, paths_head)
    /\ pc' = "rp_tail"
    /\ UNCHANGED <<signal_caught, k_event, kret, kerrno, paths_tail, paths_head,
                   bytes_available, eof_signaled, bytes_read, line, new_path,
                   status, out, errout>>
    /\ UNCHANGED <<envVars, renderVars>>

\* Line 140.
RpTail ==
    /\ pc = "rp_tail"
    /\ paths_tail' = IF paths_tail = NULL THEN new_path ELSE paths_tail
    /\ pc' = "rp_head"
    /\ UNCHANGED <<signal_caught, k_event, kret, kerrno, heap, paths_head,
                   bytes_available, eof_signaled, bytes_read, line, new_path,
                   status, out, errout>>
    /\ UNCHANGED <<envVars, renderVars>>

\* Line 141.
RpHead ==
    /\ pc = "rp_head"
    /\ paths_head' = new_path
    /\ pc' = "rp_register"
    /\ UNCHANGED <<signal_caught, k_event, kret, kerrno, heap, paths_tail,
                   bytes_available, eof_signaled, bytes_read, line, new_path,
                   status, out, errout>>
    /\ UNCHANGED <<envVars, renderVars>>

(* ----------------------------- register_path --------------------------- *)
\* Mutant: the result of open() is not checked (line 88 left out).
CanOpenAlways(path) == TRUE

\* Line 86: open() succeeds on the files that exist.
CanOpen(path) == path \in Openable

\* Lines 86-94 for a path that opens: the registration is added to the kqueue;
\* its udata is the entry's path (line 90), its descriptor the lowest free one.
RegisterOk ==
    /\ pc = "rp_register"
    /\ CanOpen(heap[new_path].path)
    /\ watches' = Append(watches, [fd |-> kq + Len(watches) + 1,
                                   udata |-> new_path, fflags |-> 0,
                                   since |-> 0])
    /\ pc' = "rp_test"
    /\ UNCHANGED <<signal_caught, k_event, kret, kerrno, heap, paths_tail,
                   paths_head, bytes_available, eof_signaled, bytes_read, line,
                   new_path, status, out, errout>>
    /\ UNCHANGED <<written, pipe, closed, inReady, inbuf, eofFlag,
                   eventSince, nchanges, nsignals, nstops>>
    /\ UNCHANGED renderVars

\* Line 88: err(errno, ...); the exit status is the low byte of errno.
OpenExitStatus(e) == e % 256

\* Lines 86-88 for a path that does not open.
RegisterFail(e) ==
    /\ pc = "rp_register"
    /\ ~CanOpen(heap[new_path].path)
    /\ pc' = "exited"
    /\ status' = OpenExitStatus(e)
    /\ UNCHANGED <<signal_caught, k_event, kret, kerrno, heap, paths_tail,
                   paths_head, bytes_available, eof_signaled, bytes_read, line,
                   new_path, out, errout>>
    /\ UNCHANGED <<envVars, renderVars>>

(* --------------------------- the specification ------------------------- *)
Environment ==
    \/ \E b \in Alphabet : Write(b)
    \/ Close
    \/ \E f \in Openable, k \in ChangeKinds : FileChange(f, k)
    \/ \E e \in WaitErrnos : KeventFail(e)
    \/ FgetlnError

Loop ==
    \/ LoopTop
    \/ KeventBlock
    \/ KeventInput
    \/ \E i \in 1..Len(watches) : KeventVnode(i)
    \/ CheckSignal
    \/ DispatchInput
    \/ DispatchChange
    \/ RpTest
    \/ FgetlnLine
    \/ FgetlnPartial
    \/ FgetlnEof
    \/ RpMalloc
    \/ RpCopy
    \/ RpInsque
    \/ RpTail
    \/ RpHead
    \/ RegisterOk
    \/ \E e \in OpenErrnos : RegisterFail(e)

Next == Environment \/ Loop \/ dump_paths

Spec == Init /\ [][Next]_vars

\* The loop is scheduled whenever it can take a step; the writer, the files
\* and the signal sender owe nothing.
FairSpec == Spec /\ WF_vars(Loop)

\* The watcher with no SIGUSR1 sent to it.
QuietNext == Environment \/ Loop
QuietFairSpec == Init /\ [][QuietNext]_vars /\ WF_vars(Loop)

(* ------------------- the watcher under job control -------------------- *)
\* Number of times the process is stopped and continued while it waits.
MaxStops == 1
\* Exit status of a process killed by SIGSEGV, as the shell reports it.
SegvStatus == 139

\* Lines 197-199: the process is stopped and continued (job control, a tracer
\* attaching) while the wait is blocked.  kevent() returns -1 with EINTR; no
\* handler has run, so signal_caught is still what line 196 made it.
WaitInterrupted ==
    /\ pc = "sleep"
    /\ nstops < MaxStops
    /\ nstops' = nstops + 1
    /\ kret' = -1
    /\ kerrno' = EINTR
    /\ IF WaitFatal(-1, EINTR)
       THEN pc' = "exited" /\ status' = 1
       ELSE pc' = "check" /\ status' = status
    /\ UNCHANGED <<signal_caught, k_event, heap, paths_tail, paths_head,
                   bytes_available, eof_signaled, bytes_read, line, new_path,
                   out, errout>>
    /\ UNCHANGED <<written, pipe, closed, inReady, inbuf, eofFlag, watches,
                   eventSince, nchanges, nsignals>>
    /\ UNCHANGED renderVars

\* Lines 203-207 with k_event never written by a wait: its fields are what
\* the stack held.  The read is undefined behaviour; the outcomes kept are a
\* fault on the wild udata (line 176), a line printed for a null udata, and a
\* call of register_paths with nothing to read.
DispatchUninit ==
    /\ pc = "dispatch"
    /\ k_event = UninitEvent
    /\ \/ /\ pc' = "exited"
          /\ status' = SegvStatus
          /\ UNCHANGED <<out, bytes_available, eof_signaled, bytes_read>>
       \/ /\ out' = Append(out, HandleEventLine("(null)", 0))
          /\ pc' = "top"
          /\ UNCHANGED <<status, bytes_available, eof_signaled, bytes_read>>
       \/ /\ bytes_available' = 0
          /\ eof_signaled' = 0
          /\ bytes_read' = 0
          /\ pc' = "rp_test"
          /\ UNCHANGED <<status, out>>
    /\ UNCHANGED <<signal_caught, k_event, kret, kerrno, heap, paths_tail,
                   paths_head, line, new_path, errout>>
    /\ UNCHANGED <<envVars, renderVars>>

TracedNext == Next \/ WaitInterrupted \/ DispatchUninit
TracedSpec == Init /\ [][TracedNext]_vars

(* ----------------------- the renderer on its own ----------------------- *)
\* The largest bitmask rendered.
MaxMask == 255

RenderInit ==
    /\ EnvInit
    /\ ProgInit
    /\ rflags \in 0..MaxMask
    /\ rbuf = ""
    /\ rdone = FALSE
    /\ rhist = <<>>

\* Lines 171-175: change_flags_to_msg on a fresh buffer holding "".
Render ==
    /\ ~rdone
    /\ rbuf' = change_flags_to_msg(rflags, "")
    /\ rdone' = TRUE
    /\ UNCHANGED <<rflags, rhist, envVars, progVars>>

RenderNext == Render
RenderSpec == RenderInit /\ [][RenderNext]_vars

(* ----------------------- handle_event, call after call ----------------- *)
\* Number of handle_event calls made one after another.
MaxRenders == 3
\* The change-kind bitmasks of the events handed to handle_event.
HandleMasks == (0..7) \cup {NOTE_ATTRIB + NOTE_RENAME, 127}

\* Mutant: the buffer of the previous call is rendered into again.
ReusedBuffer(prev) == prev

\* Lines 171-174: each call renders into a buffer of its own, malloc(1) set to "".
FreshBuffer(prev) == ""

\* Lines 168-178 for an event with fflags m: what change_flags_to_msg leaves
\* in changes.  flagged and i are locals set on entry (line 153); flag_descs is
\* only read.
handle_event(m) ==
    /\ Len(rhist) < MaxRenders
    /\ rflags' = m
    /\ rbuf' = change_flags_to_msg(m, FreshBuffer(rbuf))
    /\ rdone' = TRUE
    /\ rhist' = Append(rhist, <<m, rbuf'>>)
    /\ UNCHANGED <<envVars, progVars>>

HandleNext == \E m \in HandleMasks : handle_event(m)
HandleSpec == Init /\ [][HandleNext]_vars

(* ======================================================================= *)
(*                               The claims                                *)
(* ======================================================================= *)

(* ---------------- what the specification's words stand for ------------- *)
RECURSIVE SplitLines(_)
\* The lines of a byte sequence: each newline ends a line and is not part of
\* it; bytes after the last newline are a final line; nothing after the last
\* newline is no line.
SplitLines(s) ==
    IF s = <<>> THEN <<>>
    ELSE IF \E i \in 1..Len(s) : s[i] = NL
         THEN LET n == CHOOSE i \in 1..Len(s) :
                          s[i] = NL /\ \A j \in 1..(i - 1) : s[j] # NL
              IN <<SubSeq(s, 1, n - 1)>> \o SplitLines(SubSeq(s, n + 1, Len(s)))
         ELSE <<s>>

\* The bytes of the control stream that fgetln has handed to register_paths.
Consumed == SubSeq(written, 1, Len(written) - Len(inbuf) - Len(pipe))
SubmittedLines == SplitLines(Consumed)
AllValid(ls) == \A i \in 1..Len(ls) : ls[i] \in Openable

RECURSIVE Chain(_, _, _)
\* The entries met from p by following next, at most fuel of them.
Chain(h, p, fuel) ==
    IF p = NULL \/ fuel = 0 THEN <<>>
    ELSE <<p>> \o Chain(h, h[p].next, fuel - 1)

\* The registry: the entries reachable from the anchor paths_tail, and their paths.
Registry == Chain(heap, paths_tail, Len(heap))
RegistryPaths == [i \in 1..Len(Registry) |-> heap[Registry[i]].path]
WatchPaths == [i \in 1..Len(watches) |-> heap[watches[i].udata].path]

\* No append (lines 126-143) is under way.
AppendDone ==
    pc \notin {"rp_malloc", "rp_copy", "rp_insque", "rp_tail", "rp_head", "rp_register"}

\* The labels in table order, as the specification lists them.
LabelTable ==
    << <<1, "DELETE">>, <<2, "WRITE">>, <<4, "EXTEND">>, <<8, "ATTRIB">>,
       <<16, "LINK">>, <<32, "RENAME">>, <<64, "REVOKE">> >>

RECURSIVE JoinComma(_)
JoinComma(ls) ==
    IF ls = <<>> THEN ""
    ELSE IF Len(ls) = 1 THEN ls[1]
         ELSE ls[1] \o "," \o JoinComma(Tail(ls))

RECURSIVE LabelsFrom(_, _)
\* The labels of the bits set in mask, from table entry i on.
LabelsFrom(mask, i) ==
    IF i > Len(LabelTable) THEN <<>>
    ELSE (IF (mask \div LabelTable[i][1]) % 2 = 1
          THEN <<LabelTable[i][2]>> ELSE <<>>) \o LabelsFrom(mask, i + 1)

Rendering(mask) == JoinComma(LabelsFrom(mask, 1))

\* Every path a line of at most MaxBytes bytes can name.
LinePaths == UNION {[1..n -> Alphabet \ {NL}] : n \in 0..MaxBytes}

\* Every pair of a path and a line handle_event can print for it.
Reports ==
    {<<p, Str(p) \o "\t" \o Rendering(m) \o NL>> : p \in LinePaths, m \in 0..127}

(* -------------------------------- C1 ----------------------------------- *)
\* C1: when every line handed to register_paths so far names a file that opens
\* and no append is under way, there is exactly one watch registration per
\* line, in submission order, each for the path of its line, and the registry
\* walked from paths_tail by next yields exactly those paths in that order.
C1_RegistryInOrder ==
    AppendDone =>
        LET ls == SubmittedLines IN
        AllValid(ls) =>
            /\ Len(watches) = Len(ls)
            /\ WatchPaths = ls
            /\ RegistryPaths = ls

\* C1 witness: two different valid paths were submitted and both are registered.
C1_Witness ==
    /\ AppendDone
    /\ SubmittedLines = << <<"a">>, <<"b">> >>
    /\ RegistryPaths = << <<"a">>, <<"b">> >>
    /\ Len(watches) = 2

(* -------------------------------- C3 ----------------------------------- *)
\* C3: for every bitmask, change_flags_to_msg leaves in an empty buffer the
\* labels of the bits set, in table order, joined by single commas with no
\* leading or trailing comma; WRITE|DELETE gives "DELETE,WRITE" and an empty
\* bitmask gives the empty string.
C3_RenderTableOrder ==
    rdone =>
        /\ rbuf = Rendering(rflags)
        /\ (rflags = NOTE_WRITE + NOTE_DELETE => rbuf = "DELETE,WRITE")
        /\ (rflags = 0 => rbuf = "")

\* C3 witness: the mask WRITE|DELETE has been rendered.
C3_Witness == rdone /\ rflags = NOTE_WRITE + NOTE_DELETE /\ rbuf = "DELETE,WRITE"

(* -------------------------------- C2 ----------------------------------- *)
\* The wait has just returned a vnode event and line 201 is next.
PathWakeup == pc = "check" /\ kret = 1 /\ k_event.filter = "EVFILT_VNODE"

\* The line the specification asks for the event in k_event: the path of the
\* submitted line the event's registration was made for, a tab, the rendering
\* of the event's notes, a newline.
ExpectedReport ==
    Str(SubmittedLines[k_event.ident - kq]) \o "\t" \o Rendering(k_event.fflags) \o NL

\* C2: every wakeup of the wait that identifies a watched path goes on to
\* handle_event, which writes exactly one line "<path>\t<rendered-flags>\n" to
\* stdout, and nothing else writes to stdout.
C2_OneLinePerPathWakeup ==
    [][ /\ (PathWakeup /\ pc' # pc) => pc' = "dispatch"
        /\ (pc = "dispatch" /\ k_event.filter = "EVFILT_VNODE" /\ pc' # pc)
               => out' = Append(out, ExpectedReport)
        /\ (out' # out) => (pc = "dispatch" /\ k_event.filter = "EVFILT_VNODE")
      ]_vars

(* -------------------------------- C4 ----------------------------------- *)
\* C4: whenever SIGUSR1 is handled, every event the wait returns is still
\* dispatched (to register_paths or to handle_event), and the registry never
\* loses an entry.
C4_SignalConsumesNoEvent ==
    [][ /\ (pc = "check" /\ kret = 1 /\ pc' # pc) => pc' = "dispatch"
        /\ Len(Registry') >= Len(Registry)
        /\ \A i \in 1..Len(Registry) :
               Registry'[i] = Registry[i] /\ RegistryPaths'[i] = RegistryPaths[i]
      ]_vars

(* -------------------------------- C5 ----------------------------------- *)
\* C5: a dump prints the path of every entry of the registry, oldest first,
\* one per line and nothing else; it does not end the process and leaves the
\* loop where it was or back from the wait; and a change made after a dump,
\* once the wait returns it, is reported.
C5_DumpThenDelivery ==
    [][ /\ (nsignals' # nsignals) =>
               /\ errout' = errout \o [i \in 1..Len(Registry) |->
                                          Str(SubmittedLines[i]) \o NL]
               /\ pc' # "exited"
               /\ (pc' = pc \/ (pc = "sleep" /\ pc' = "check"))
        /\ (PathWakeup /\ eventSince > 0 /\ pc' # pc) => pc' = "dispatch"
      ]_vars

(* -------------------------------- C6 ----------------------------------- *)
ChangePending == \E i \in 1..Len(watches) : watches[i].fflags # 0

\* C6: whenever a change is pending for a watched path, a further report line
\* is eventually written (unless the process has exited), whatever the writer
\* of the control stream does or does not do.
C6_ChangeEventuallyReported ==
    \A n \in 0..MaxChanges :
        (ChangePending /\ Len(out) = n) ~> (Len(out) > n \/ pc = "exited")

(* -------------------------------- C7 ----------------------------------- *)
\* C7: once a line that names a file that does not open has gone through
\* register_paths, the process has exited with a status other than 0, that
\* line is the last one ever read from the control stream, exactly the lines
\* before it are registered, and stdout holds no report line for its path.
C7_OpenFailureFatal ==
    AppendDone =>
        LET ls == SubmittedLines IN
        ~AllValid(ls) =>
            LET bad == Len(ls) IN
            /\ pc = "exited"
            /\ status # 0
            /\ ls[bad] \notin Openable
            /\ AllValid(SubSeq(ls, 1, bad - 1))
            /\ WatchPaths = SubSeq(ls, 1, bad - 1)
            /\ \A j \in 1..Len(out) : <<ls[bad], out[j]>> \notin Reports

\* C7 witness: a valid line and then an invalid one were read in one call of
\* register_paths; the first is registered and the process has exited.
C7_Witness ==
    /\ pc = "exited"
    /\ status # 0
    /\ Len(SubmittedLines) = 2
    /\ SubmittedLines[1] \in Openable
    /\ SubmittedLines[2] \notin Openable
    /\ Len(watches) = 1
    /\ bytes_available = 3

(* -------------------------------- C8 ----------------------------------- *)
\* C8: once stdio has reached end-of-file and no append is under way, if all
\* the lines of the stream are valid paths then the registrations and the
\* registry are exactly the lines of the whole stream, an unterminated final
\* line included and an empty trailing fragment not; and no path stored in an
\* entry, registered or about to be, ever holds a newline.
C8_FinalLineAtEof ==
    /\ (eofFlag /\ AppendDone) =>
           LET ls == SplitLines(written) IN
           AllValid(ls) => (WatchPaths = ls /\ RegistryPaths = ls)
    /\ \A e \in 1..Len(heap) :
           \A j \in 1..Len(heap[e].path) : heap[e].path[j] # NL

\* C8 witness: "a\nb" then end-of-stream, signalled by a wakeup of its own
\* after the one that brought the bytes; both paths are registered.
C8_Witness ==
    /\ eofFlag
    /\ pc = "top"
    /\ written = <<"a", NL, "b">>
    /\ WatchPaths = << <<"a">>, <<"b">> >>
    /\ k_event.flags = EV_EOF
    /\ k_event.data = 0

(* -------------------------------- C9 ----------------------------------- *)
\* C9: in every reachable state the entries reachable from the registry anchor
\* are exactly the entries that have a watch registration, one each.
C9_RegistryEqualsWatches ==
    Registry = [i \in 1..Len(watches) |-> watches[i].udata]

C11_DumpFrame ==
    [][ (nsignals' # nsignals) =>
            /\ heap' = heap
            /\ paths_tail' = paths_tail
            /\ paths_head' = paths_head
            /\ watches' = watches
            /\ inReady' = inReady
            /\ <<written, pipe, closed, inbuf, eofFlag>>' =
                   <<written, pipe, closed, inbuf, eofFlag>>
            /\ <<k_event, bytes_available, eof_signaled, bytes_read, line, new_path>>' =
                   <<k_event, bytes_available, eof_signaled, bytes_read, line, new_path>>
            /\ out' = out
            /\ signal_caught' = 1
            /\ Len(errout') >= Len(errout)
            /\ SubSeq(errout', 1, Len(errout)) = errout
      ]_vars

\* C11 witness: the handler ran with two entries in the registry; both are
\* still there, with their registrations.
C11_Witness ==
    /\ nsignals = 1
    /\ signal_caught = 1
    /\ errout = <<"a\n", "b\n">>
    /\ RegistryPaths = << <<"a">>, <<"b">> >>
    /\ Len(watches) = 2

(* -------------------------------- C12 ---------------------------------- *)
\* Registrations i and j were made for the same path text.
SamePath(i, j) == heap[watches[i].udata].path = heap[watches[j].udata].path
\* Some other registration has the path text of registration i.
HasTwin(i) == \E j \in 1..Len(watches) : j # i /\ SamePath(i, j)
\* The registration the event in k_event belongs to (its descriptor is kq + i).
EventReg == k_event.ident - kq

\* C12: submissions of one path text are never merged: every registration has
\* an entry and a descriptor of its own; a change to the file leaves notes
\* pending on every registration made for its text; a wakeup for one of them
\* leaves the notes of the others pending; and each such wakeup is dispatched
\* and writes its own report line.
C12_NoDeduplication ==
    [][ /\ \A i, j \in 1..Len(watches) :
               i # j => (watches[i].udata # watches[j].udata /\ watches[i].fd # watches[j].fd)
        /\ (nchanges' # nchanges) =>
               \A i, j \in 1..Len(watches) :
                   (watches'[i].fflags # watches[i].fflags /\ SamePath(i, j))
                       => watches'[j].fflags # 0
        /\ (pc # "check" /\ PathWakeup') =>
               \A j \in 1..Len(watches) : j # EventReg' => watches'[j] = watches[j]
        /\ (PathWakeup /\ HasTwin(EventReg) /\ pc' # pc) => pc' = "dispatch"
        /\ (pc = "dispatch" /\ k_event.filter = "EVFILT_VNODE" /\ HasTwin(EventReg)
                /\ pc' # pc)
               => (out' = Append(out, ExpectedReport) /\ watches' = watches)
      ]_vars

(* -------------------------------- C13 ---------------------------------- *)
\* WAITING: the loop is in the wait of line 197, entering it or blocked in it.
Waiting == pc \in {"kevent_call", "sleep"}

\* C13: from every state the loop gets back to the wait of line 197 unless
\* the process exits; and once the control stream is at end-of-file, every
\* change pending on a registered path is followed by a further report line
\* (or by the exit of the process).
C13_NoTerminalState ==
    /\ (pc # "exited") ~> (Waiting \/ pc = "exited")
    /\ \A n \in 0..MaxChanges :
           (eofFlag /\ ChangePending /\ Len(out) = n) ~> (Len(out) > n \/ pc = "exited")

(* -------------------------------- C14 ---------------------------------- *)
\* C14: two handle_event renderings of the same bitmask give the same string,
\* whatever was rendered before, between and after them.
C14_RenderIdempotent ==
    \A i, j \in 1..Len(rhist) :
        rhist[i][1] = rhist[j][1] => rhist[i][2] = rhist[j][2]

\* C14 witness: DELETE|WRITE was rendered, then all seven kinds, then
\* DELETE|WRITE again.
C14_Witness ==
    /\ Len(rhist) = 3
    /\ rhist[1] = <<NOTE_DELETE + NOTE_WRITE, "DELETE,WRITE">>
    /\ rhist[2][1] = 127
    /\ rhist[3] = <<NOTE_DELETE + NOTE_WRITE, "DELETE,WRITE">>

(* -------------------------------- C15 ---------------------------------- *)
\* (a) or (b) of the specification, on register_paths' parameters and locals.
ClaimedStop == bytes_read >= bytes_available \/ (eof_signaled # 0 /\ eofFlag)
\* The negation of line 115's condition.
ActualStop == bytes_read >= bytes_available /\ (eof_signaled = 0 \/ eofFlag)
\* fgetln hands register_paths a line (lines 116-124).
LineRead == pc = "rp_fgetln" /\ pc' = "rp_malloc"

\* C15 as the specification states it: an invocation of register_paths ends
\* at the first loop test where the bytes consumed have reached
\* bytes_available or where end-of-file was signalled and has been reached,
\* and no line is read once either holds.
C15_StopsAtEither ==
    [][ /\ (pc = "rp_test" /\ pc' # pc /\ ClaimedStop) => pc' = "top"
        /\ LineRead => ~ClaimedStop
      ]_vars

\* C15, amended: the invocation ends at the first loop test where the bytes
\* consumed have reached bytes_available and, if end-of-file was signalled,
\* end-of-file has been reached; otherwise it calls fgetln, and leaves there
\* only when fgetln finds end-of-file with nothing left; it reads a line only
\* when the test let it.  With end-of-file signalled it reads on past
\* bytes_available until end-of-file.
C15_StopRule ==
    [][ /\ (pc = "rp_test" /\ pc' # pc) =>
               IF ActualStop THEN pc' = "top" ELSE pc' = "rp_fgetln"
        /\ LineRead => ~ActualStop
        /\ (pc = "rp_fgetln" /\ pc' = "top") => (eofFlag' /\ inbuf' = <<>>)
        /\ (pc = "rp_fgetln" /\ pc' # pc) => pc' \in {"rp_malloc", "top", "exited"}
      ]_vars

\* C15 witness: end-of-file was signalled with 0 bytes ready, and a line was
\* read all the same: the bytes stdio still held from the wakeup before.
C15_Witness ==
    /\ pc = "rp_malloc"
    /\ eof_signaled # 0
    /\ bytes_available = 0
    /\ bytes_read = 1
    /\ line = <<"b">>

(* -------------------------------- C16 ---------------------------------- *)
RECURSIVE SafeWalk(_, _, _)
\* The walk of lines 222-225 from p meets only allocated entries whose path
\* and next have been set, and ends within fuel entries.
SafeWalk(h, p, fuel) ==
    IF p = NULL THEN TRUE
    ELSE /\ fuel > 0
         /\ p \in 1..Len(h)
         /\ h[p].path # GarbagePath
         /\ h[p].next # Garbage
         /\ SafeWalk(h, h[p].next, fuel - 1)

CompleteLines == Cardinality({i \in 1..Len(written) : written[i] = NL})

\* C17: whenever the loop is in the wait of line 197 and no read event of the
\* control stream is pending, every complete line written so far has a watch
\* registration: none is left in the pipe or in the buffer of stdio.
C17_NoCompleteLineLeft ==
    (Waiting /\ ~InputReady) =>
        /\ Len(watches) >= CompleteLines
        /\ ~HasNL(inbuf \o pipe)

(* -------------------------------- C18 ---------------------------------- *)
\* C18: whenever the loop dispatches (lines 203-207), the wait of this
\* iteration returned an event; and a line is written to stdout only for a
\* vnode event the wait of this iteration returned, and is the report of that
\* event's registration.
C18_DispatchFreshEvent ==
    [][ /\ (pc = "dispatch" /\ pc' # pc) => kret = 1
        /\ (out' # out) =>
               /\ kret = 1
               /\ k_event.filter = "EVFILT_VNODE"
               /\ out' = Append(out, ExpectedReport)
      ]_vars

====
